---- MODULE Spec2Model ----
(***************************************************************************)
(* Model of freppledb/execute/management/commands/scheduletasks.py:        *)
(* the "scheduletasks" command with its two modes,                         *)
(*   executeScheduledTask  (a schedule name is given: run its steps), and  *)
(*   createScheduledTasks  (no schedule name: create the tasks that are    *)
(*                          due and re-arm the operating system timer).    *)
(* The Task table, the ScheduledTask table, the row locks of the database, *)
(* the clock and the registrations made with at/schtasks are the state.    *)
(***************************************************************************)
EXTENDS Integers, Sequences, FiniteSets, TLC

VARIABLES
    clock,      \* datetime.now(), in seconds
    tasks,      \* committed rows of the Task table; the primary key is the index
    next_run,   \* ScheduledTask.next_run per schedule name: None or <<t>>
    data,       \* ScheduledTask.data["tasks"] per schedule name: the step list
    owner,      \* ScheduledTask.user per schedule name
    rule,       \* the recurrence of each schedule: its period, 0 for none
    exec,       \* one record per executeScheduledTask invocation (its locals)
    scan,       \* one record per createScheduledTasks invocation (its locals)
    lastid,     \* the Task primary key sequence (never rolled back)
    locks,      \* the row locks on ScheduledTask: the scan that holds each, or ""
    timers,     \* the pending registrations of the external one-shot timer
    launched,   \* number of launchWorker calls made
    fired,      \* history: the (schedule, next_run, task) of each committed claim
    manual      \* number of invocations made by hand

store == <<next_run, data, owner, rule>>
harvest == <<scan, locks, timers, launched, fired, manual>>
vars == <<clock, tasks, lastid, exec, store, harvest>>

-----------------------------------------------------------------------------
(* Bounds of the model *)

MaxTime == 3
MaxSteps == 2
MaxManual == 2
\* the latest next_run a schedule starts with
MaxDue == 1
\* the seconds of a minute, scaled down
Minute == 2
\* the periods of the recurrences; 0 is a schedule without recurrence
Periods == {0, 3}

(* The names used in the scenarios *)
Schedules == {"S1", "S2"}
Users == {"None", "admin"}
Procs == {"p1", "p2"}
Scans == {"h1", "h2"}

-----------------------------------------------------------------------------
(* Values *)

\* Python's None for the nullable columns; a value v of such a column is <<v>>
None == <<>>
At(t) == <<t>>

\* Task(...): the fields of a Task object that this command sets and reads.
\* The column submitted is left out: it is set when a task is built and never
\* read.
Task(name, started, status, user, processid, arguments) ==
    [ name |-> name, started |-> started,
      finished |-> None, status |-> status, message |-> "", user |-> user,
      processid |-> processid, arguments |-> arguments ]

\* os.getpid() of the process running invocation p
getpid(p) == IF p = "p1" THEN 101 ELSE 102

\* the pre-existing rows an invocation can be pointed at with --task
ExistingTasks ==
    { [ Task(n, None, "Waiting", "None", None, "") EXCEPT
          !.status = st[1], !.started = st[2], !.finished = st[3] ] :
        n \in {"runplan", "frepple_run", "schedule"},
        st \in { <<"Waiting", None, None>>, <<"50%", At(0), None>>,
                 <<"Done", At(0), At(0)>>, <<"Failed", At(0), At(0)>>,
                 <<"Canceled", None, None>> } }

\* the step lists of a schedule: each step has a name and an abort_on_failure flag
Step(flag) == [ name |-> "runplan", arguments |-> "", abort_on_failure |-> flag ]
StepLists ==
    UNION { [1..n -> {Step(TRUE), Step(FALSE)}] : n \in 0..MaxSteps }

-----------------------------------------------------------------------------
(* The Task table *)

\* Task.objects.get(pk=id): whether the row is there
Exists(id) == id \in DOMAIN tasks
\* Task(...).save() of a new object: the INSERT, with the key the sequence gives
Insert(tbl, id, row) == tbl @@ (id :> row)
\* task.save() of an object that has a key: the UPDATE of all its columns
Update(tbl, id, row) == [tbl EXCEPT ![id] = row]

-----------------------------------------------------------------------------
(* executeScheduledTask: pure parts *)

\* mutant of InvalidTask: the name of the task is not tested
InvalidTaskIgnoresName(t) ==
    \/ t.started # None
    \/ t.finished # None
    \/ t.status # "Waiting"

\* lines 94-99: the test that rejects the task given with --task
InvalidTask(t) ==
    \/ t.started # None
    \/ t.finished # None
    \/ t.status # "Waiting"
    \/ t.name \notin {"runplan", "frepple_run"}

\* lines 101-103: the given task is marked as started by this process
StartTask(t, now, pid) ==
    [t EXCEPT !.status = "0%", !.started = At(now), !.processid = At(pid)]

\* lines 105-112: the task built when no --task is given
NewTask(now, user, pid) ==
    Task("scheduletasks", At(now), "0%", user, At(pid), "")

\* lines 121-127: the task built for a step
StepTask(step, user) ==
    Task(step.name, None, "Waiting", user, None, step.arguments)

\* lines 130-131: the progress message
RunningMessage(id, idx, stepcount) ==
    "Running task " \o ToString(id) \o " as step " \o ToString(idx)
        \o " of " \o ToString(stepcount)

\* mutant of Percent: the steps that are over are counted
PercentOfStepsOver(idx, stepcount) ==
    ToString(((idx - 1) * 100) \div stepcount) \o "%"

\* line 132: "%d%%" % int(idx * 100.0 / stepcount)
Percent(idx, stepcount) == ToString((idx * 100) \div stepcount) \o "%"

\* mutant of FailedAtStep: the step is counted from zero
FailedAtStepFromZero(idx, stepcount) ==
    "Failed at step " \o ToString(idx - 1) \o " of " \o ToString(stepcount)

\* line 141: the message of an aborted run
FailedAtStep(idx, stepcount) ==
    "Failed at step " \o ToString(idx) \o " of " \o ToString(stepcount)

\* lines 141-143: the parent as saved when a step with abort_on_failure failed
AbortTask(t, idx, stepcount, now) ==
    [t EXCEPT !.message = FailedAtStep(idx, stepcount), !.status = "Failed",
              !.finished = At(now)]

\* line 153: ", ".join(failed). The items of failed are the integer keys of the
\* step tasks, and str.join raises TypeError on an item that is not a string.
join(failed) ==
    IF failed = <<>>
    THEN [raises |-> FALSE, value |-> ""]
    ELSE [raises |-> TRUE,
          value |-> "sequence item 0: expected str instance, int found"]

\* mutant of FinishTask: the process id is left on the task
FinishTaskKeepsProcess(t, failed, now) ==
    IF failed # <<>>
    THEN [t EXCEPT !.status = "Failed",
                   !.message = "Failed at tasks: " \o join(failed).value,
                   !.finished = At(now)]
    ELSE [t EXCEPT !.status = "Done", !.message = "", !.finished = At(now)]

\* lines 150-157: the parent at the end of the loop (when join did not raise)
FinishTask(t, failed, now) ==
    IF failed # <<>>
    THEN [t EXCEPT !.processid = None, !.status = "Failed",
                   !.message = "Failed at tasks: " \o join(failed).value,
                   !.finished = At(now)]
    ELSE [t EXCEPT !.processid = None, !.status = "Done", !.message = "",
                   !.finished = At(now)]

\* mutant of FailTask: the status is left as it was
FailTaskKeepsStatus(t, e, now) ==
    [t EXCEPT !.message = e, !.finished = At(now), !.processid = None]

\* lines 168-171: the parent as the exception handler saves it
FailTask(t, e, now) ==
    [t EXCEPT !.status = "Failed", !.message = e, !.finished = At(now),
              !.processid = None]

\* runTask(steptask, database) of runworker: drives the task from Waiting to a
\* terminal status
runTask(t, outcome, now) ==
    [t EXCEPT !.status = outcome, !.started = At(now), !.finished = At(now)]

\* the locals of an invocation that has not started
IdleExec ==
    [ pc |-> "idle", schedule |-> "", opt_task |-> 0, user |-> "None", now |-> 0,
      task |-> None, idx |-> 0, failed |-> <<>>, steptask |-> 0, e |-> "",
      \* history: the keys of the step tasks created, the number of runTask
      \* calls, the place and step of an injected failure, the Task table at start
      children |-> <<>>, handed |-> 0, fault |-> "", faultidx |-> 0,
      pre |-> <<>> ]

\* the local variable task: the key (None before the INSERT) and the columns
Obj(id, row) == <<[id |-> id, row |-> row]>>

tasklist(p) == data[exec[p].schedule]
stepcount(p) == Len(tasklist(p))

-----------------------------------------------------------------------------
(* executeScheduledTask: one action per database call, in the order of the  *)
(* code. raises is the input "this call raises".                            *)

\* lines 64-87: the schedule and the user are found, now is read
ExecStart(p) ==
    /\ exec[p].pc = "idle"
    /\ \E s \in Schedules, t \in 0..2, u \in Users :
         exec' = [exec EXCEPT ![p] =
                    [@ EXCEPT !.pc = "gettask", !.schedule = s, !.opt_task = t,
                              !.user = u, !.now = clock, !.pre = tasks]]
    /\ UNCHANGED <<clock, tasks, lastid, store, harvest>>

\* lines 89-112: the task given with --task is read and tested, or a task is built
ExecGetTask(p) ==
    LET x == exec[p] IN
    /\ x.pc = "gettask"
    /\ \E raises \in BOOLEAN :
         exec' = [exec EXCEPT ![p] =
           IF x.opt_task # 0
           THEN IF raises \/ ~Exists(x.opt_task)
                THEN [@ EXCEPT !.pc = "except", !.e = "Task identifier not found",
                               !.fault = IF raises THEN "task.get" ELSE ""]
                ELSE IF InvalidTask(tasks[x.opt_task])
                THEN [@ EXCEPT !.pc = "except", !.e = "Invalid task identifier",
                               !.task = Obj(At(x.opt_task), tasks[x.opt_task])]
                ELSE [@ EXCEPT !.pc = "save",
                               !.task = Obj(At(x.opt_task),
                                            StartTask(tasks[x.opt_task], x.now,
                                                      getpid(p)))]
           ELSE [@ EXCEPT !.pc = "save",
                          !.task = Obj(None, NewTask(x.now, x.user, getpid(p)))]]
    /\ UNCHANGED <<clock, tasks, lastid, store, harvest>>

\* line 113: task.save()
ExecSaveTask(p) ==
    LET x == exec[p]
        t == x.task[1] IN
    /\ x.pc = "save"
    /\ \E raises \in BOOLEAN :
         IF raises
         THEN /\ exec' = [exec EXCEPT ![p] =
                    [@ EXCEPT !.pc = "except", !.e = "database error",
                              !.fault = "save"]]
              /\ UNCHANGED <<tasks, lastid>>
         ELSE IF t.id = None
         THEN /\ tasks' = Insert(tasks, lastid + 1, t.row)
              /\ lastid' = lastid + 1
              /\ exec' = [exec EXCEPT ![p] =
                    [@ EXCEPT !.pc = "loop", !.idx = 1, !.failed = <<>>,
                              !.task = Obj(At(lastid + 1), t.row)]]
         ELSE /\ tasks' = Update(tasks, t.id[1], t.row)
              /\ lastid' = lastid
              /\ exec' = [exec EXCEPT ![p] =
                    [@ EXCEPT !.pc = "loop", !.idx = 1, !.failed = <<>>]]
    /\ UNCHANGED <<clock, store, harvest>>

\* lines 120-128: the next step's task is built and saved
ExecCreateStep(p) ==
    LET x == exec[p] IN
    /\ x.pc = "loop"
    /\ x.idx <= stepcount(p)
    /\ \E raises \in BOOLEAN :
         IF raises
         THEN /\ exec' = [exec EXCEPT ![p] =
                    [@ EXCEPT !.pc = "except", !.e = "database error",
                              !.fault = "steptask.save", !.faultidx = x.idx]]
              /\ UNCHANGED <<tasks, lastid>>
         ELSE /\ tasks' = Insert(tasks, lastid + 1,
                                 StepTask(tasklist(p)[x.idx], x.user))
              /\ lastid' = lastid + 1
              /\ exec' = [exec EXCEPT ![p] =
                    [@ EXCEPT !.pc = "update", !.steptask = lastid + 1,
                              !.children = Append(@, lastid + 1)]]
    /\ UNCHANGED <<clock, store, harvest>>

\* lines 129-133: filter(pk=task.id).update(message=..., status=...)
ExecUpdateProgress(p) ==
    LET x == exec[p]
        id == x.task[1].id[1] IN
    /\ x.pc = "update"
    /\ \E raises \in BOOLEAN :
         IF raises
         THEN /\ exec' = [exec EXCEPT ![p] =
                    [@ EXCEPT !.pc = "except", !.e = "database error",
                              !.fault = "update", !.faultidx = x.idx]]
              /\ UNCHANGED tasks
         ELSE /\ tasks' = [tasks EXCEPT ![id] =
                    [@ EXCEPT !.message =
                                RunningMessage(x.steptask, x.idx, stepcount(p)),
                              !.status = Percent(x.idx, stepcount(p))]]
              /\ exec' = [exec EXCEPT ![p] = [@ EXCEPT !.pc = "run"]]
    /\ UNCHANGED <<clock, lastid, store, harvest>>

\* mutant of ExecRunTask: the loop goes on without the step having run
ExecRunTaskNotAwaited(p) ==
    /\ exec[p].pc = "run"
    /\ exec' = [exec EXCEPT ![p] = [@ EXCEPT !.pc = "check", !.handed = @ + 1]]
    /\ UNCHANGED <<clock, tasks, lastid, store, harvest>>

\* line 134: runTask(steptask, database) returns, with the step task in a
\* terminal status, or raises
ExecRunTask(p) ==
    LET x == exec[p] IN
    /\ x.pc = "run"
    /\ \E outcome \in {"Done", "Failed", "raises"} :
         IF outcome = "raises"
         THEN /\ exec' = [exec EXCEPT ![p] =
                    [@ EXCEPT !.pc = "except", !.e = "runTask error",
                              !.handed = @ + 1,
                              !.fault = "runTask", !.faultidx = x.idx]]
              /\ UNCHANGED tasks
         ELSE /\ tasks' = [tasks EXCEPT ![x.steptask] = runTask(@, outcome, clock)]
              /\ exec' = [exec EXCEPT ![p] =
                    [@ EXCEPT !.pc = "check", !.handed = @ + 1]]
    /\ UNCHANGED <<clock, lastid, store, harvest>>

\* lines 137-140, 146: the step task is read again and its status tested
ExecCheckStep(p) ==
    LET x == exec[p]
        steptask == tasks[x.steptask]
        failed == IF steptask.status = "Failed"
                  THEN Append(x.failed, x.steptask) ELSE x.failed IN
    /\ x.pc = "check"
    /\ \E raises \in BOOLEAN :
         exec' = [exec EXCEPT ![p] =
           IF raises
           THEN [@ EXCEPT !.pc = "except", !.e = "database error",
                          !.fault = "steptask.get", !.faultidx = x.idx]
           ELSE IF steptask.status = "Failed"
                   /\ tasklist(p)[x.idx].abort_on_failure
           THEN [@ EXCEPT !.pc = "abort", !.failed = failed]
           ELSE [@ EXCEPT !.pc = "loop", !.failed = failed, !.idx = @ + 1]]
    /\ UNCHANGED <<clock, tasks, lastid, store, harvest>>

\* lines 141-145: the parent is saved as failed and the run is aborted
ExecAbortSave(p) ==
    LET x == exec[p]
        t == x.task[1]
        row == AbortTask(t.row, x.idx, stepcount(p), clock) IN
    /\ x.pc = "abort"
    /\ \E raises \in BOOLEAN :
         IF raises
         THEN /\ exec' = [exec EXCEPT ![p] =
                    [@ EXCEPT !.pc = "except", !.e = "database error",
                              !.task = Obj(t.id, row),
                              !.fault = "abort.save", !.faultidx = x.idx]]
              /\ UNCHANGED tasks
         ELSE /\ tasks' = Update(tasks, t.id[1], row)
              /\ exec' = [exec EXCEPT ![p] =
                    [@ EXCEPT !.pc = "except", !.e = row.message,
                              !.task = Obj(t.id, row)]]
    /\ UNCHANGED <<clock, lastid, store, harvest>>

\* line 149: after the last step the parent is read again
ExecReread(p) ==
    LET x == exec[p]
        t == x.task[1] IN
    /\ x.pc = "loop"
    /\ x.idx > stepcount(p)
    /\ \E raises \in BOOLEAN :
         exec' = [exec EXCEPT ![p] =
           IF raises
           THEN [@ EXCEPT !.pc = "except", !.e = "database error",
                          !.fault = "task.reread"]
           ELSE [@ EXCEPT !.pc = "finish", !.task = Obj(t.id, tasks[t.id[1]])]]
    /\ UNCHANGED <<clock, tasks, lastid, store, harvest>>

\* lines 150-158: the final status and message are set and saved
ExecFinish(p) ==
    LET x == exec[p]
        t == x.task[1]
        row == FinishTask(t.row, x.failed, clock) IN
    /\ x.pc = "finish"
    /\ \E raises \in BOOLEAN :
         IF x.failed # <<>> /\ join(x.failed).raises
         THEN /\ exec' = [exec EXCEPT ![p] =
                    [@ EXCEPT !.pc = "except", !.e = join(x.failed).value,
                              !.task = Obj(t.id, [t.row EXCEPT !.processid = None,
                                                               !.status = "Failed"])]]
              /\ UNCHANGED tasks
         ELSE IF raises
         THEN /\ exec' = [exec EXCEPT ![p] =
                    [@ EXCEPT !.pc = "except", !.e = "database error",
                              !.task = Obj(t.id, row), !.fault = "task.save"]]
              /\ UNCHANGED tasks
         ELSE /\ tasks' = Update(tasks, t.id[1], row)
              /\ exec' = [exec EXCEPT ![p] =
                    [@ EXCEPT !.pc = "done", !.task = Obj(t.id, row)]]
    /\ UNCHANGED <<clock, lastid, store, harvest>>

\* lines 162-167: except Exception as e: the parent, if there is one, is read again
ExecExceptGet(p) ==
    LET x == exec[p] IN
    /\ x.pc = "except"
    /\ exec' = [exec EXCEPT ![p] =
         IF x.task = None
         THEN [@ EXCEPT !.pc = "raised"]
         ELSE IF x.task[1].id = None \/ ~Exists(x.task[1].id[1])
         THEN [@ EXCEPT !.pc = "raised",
                        !.e = "Task matching query does not exist."]
         ELSE [@ EXCEPT !.pc = "exceptsave",
                        !.task = Obj(x.task[1].id, tasks[x.task[1].id[1]])]]
    /\ UNCHANGED <<clock, tasks, lastid, store, harvest>>

\* lines 168-173: the parent is saved as failed and the exception raised again
ExecExceptSave(p) ==
    LET x == exec[p]
        t == x.task[1]
        row == FailTask(t.row, x.e, clock) IN
    /\ x.pc = "exceptsave"
    /\ tasks' = Update(tasks, t.id[1], row)
    /\ exec' = [exec EXCEPT ![p] = [@ EXCEPT !.pc = "raised", !.task = Obj(t.id, row)]]
    /\ UNCHANGED <<clock, lastid, store, harvest>>

\* datetime.now() advances
Tick ==
    /\ clock < MaxTime
    /\ clock' = clock + 1
    /\ UNCHANGED <<tasks, lastid, exec, store, harvest>>

\* an invocation is over: it returned ("done") or raised exec[p].e ("raised")
Exited(p) == exec[p].pc \in {"done", "raised"}

-----------------------------------------------------------------------------
(* createScheduledTasks: pure parts *)

\* the order of the schedule names, for order_by("next_run", "name")
NameRank(s) == IF s = "S1" THEN 1 ELSE 2

\* mutant of IsDue: next_run__lt in place of next_run__lte
IsDueBefore(nr, now) == nr # None /\ nr[1] < now

\* mutant of IsDue: the test next_run__lte is left out
IsDueAlways(nr, now) == nr # None

\* line 195: filter(next_run__isnull=False, next_run__lte=now)
IsDue(nr, now) == nr # None /\ nr[1] <= now

\* line 196: order_by("next_run", "name")
Before(s, t) ==
    \/ next_run[s][1] < next_run[t][1]
    \/ next_run[s][1] = next_run[t][1] /\ NameRank(s) < NameRank(t)

RECURSIVE Ordered(_)
Ordered(S) ==
    IF S = {} THEN <<>>
    ELSE LET first == CHOOSE s \in S : \A t \in S \ {s} : Before(s, t)
         IN <<first>> \o Ordered(S \ {first})

\* lines 193-196: the rows the query selects, in its order
DueSchedules(now) == Ordered({ s \in Schedules : IsDue(next_run[s], now) })

\* lines 199-205: the task created for a due schedule
ScheduleTask(user, name) ==
    Task("schedule", None, "Waiting", user, None, name)

\* ScheduledTask.computeNextRun(now): the first time of the recurrence after
\* now, or None for a schedule without recurrence
computeNextRun(period, now) ==
    IF period = 0 THEN None ELSE At(((now \div period) + 1) * period)

\* mutant of earliest_next: the query finds no next_run
earliest_next_none == None

\* lines 215-219: aggregate(Min("next_run")) over the rows with a next_run
earliest_next ==
    LET S == { s \in Schedules : next_run[s] # None } IN
    IF S = {} THEN None
    ELSE next_run[CHOOSE s \in S : \A t \in S : next_run[s][1] <= next_run[t][1]]

\* "%H:%M %y-%m-%d": the minute a time lies in, its seconds dropped
strftime(t) == t \div Minute

\* the arguments of the call of at (lines 248-257) or schtasks (lines 226-243)
TimerCall(t, database) == [ minute |-> strftime(t), database |-> database ]

\* the time at which the external timer runs a registration
FireTime(r) == r.minute * Minute

\* the registrations that are pending, kept in the order of their minutes
Register(regs, r) ==
    LET before == SelectSeq(regs, LAMBDA q : q.minute <= r.minute)
        after == SelectSeq(regs, LAMBDA q : q.minute > r.minute)
    IN before \o <<r>> \o after

\* the locals of an invocation that has not started
IdleScan ==
    [ pc |-> "idle", database |-> "", now |-> 0, created |-> FALSE,
      cand |-> <<>>, rows |-> <<>>, inserted |-> <<>>, saved |-> <<>>, e |-> "",
      \* history: the calls of the timer command and of launchWorker made, the
      \* rows locked, the rows skipped as locked, the keys of the tasks inserted
      calls |-> <<>>, launches |-> 0, claimed |-> <<>>, skipped |-> <<>>,
      made |-> {},
      \* history: how the call of the timer command ended ("": not called)
      outcome |-> "" ]

-----------------------------------------------------------------------------
(* createScheduledTasks: one action per statement that other invocations   *)
(* can observe                                                              *)

\* lines 178-190: the command starts at time t, where now is read. No other
\* statement of the command reads the clock, so time is let pass here.
HarvestStart(h, t) ==
    /\ scan[h].pc \in {"idle", "done", "raised"}
    /\ clock' = t
    /\ scan' = [scan EXCEPT ![h] =
         [IdleScan EXCEPT !.pc = "select", !.database = "default", !.now = t]]

\* the times from now on
Later == clock..MaxTime

\* the command is run by hand, at one of times
ManualRun(h, times) ==
    /\ manual < MaxManual
    /\ manual' = manual + 1
    /\ \E t \in times : HarvestStart(h, t)
    /\ UNCHANGED <<tasks, lastid, exec, store, locks, timers, launched, fired>>

\* the external timer runs its earliest registration, at one of times, which
\* is the time of the registration or later
TimerFires(h, times) ==
    /\ timers # <<>>
    /\ \E t \in times :
         /\ FireTime(Head(timers)) <= t
         /\ timers' = Tail(timers)
         /\ HarvestStart(h, t)
    /\ UNCHANGED <<tasks, lastid, exec, store, locks, launched, fired, manual>>

\* lines 191-198: the transaction begins and the query is run on its snapshot
HarvestSelect(h) ==
    LET x == scan[h]
        cand == DueSchedules(x.now) IN
    /\ x.pc = "select"
    /\ scan' = [scan EXCEPT ![h] =
         [@ EXCEPT !.pc = IF cand = <<>> THEN "loop" ELSE "lock", !.cand = cand]]
    /\ UNCHANGED <<clock, tasks, lastid, exec, store, locks, timers, launched,
                   fired, manual>>

\* mutant of Unlocked: the query does not look at the locks
UnlockedOrNot(s) == TRUE

\* line 197: skip_locked=True: a row locked by another transaction is skipped
Unlocked(s) == locks[s] = ""

\* line 197: select_for_update(skip_locked=True), one row at a time: a row
\* locked by another transaction is skipped, another row is locked when its
\* latest committed version still passes the filter
HarvestLock(h) ==
    LET x == scan[h]
        s == Head(x.cand)
        pc == IF Tail(x.cand) = <<>> THEN "loop" ELSE "lock" IN
    /\ x.pc = "lock"
    /\ IF Unlocked(s) /\ IsDue(next_run[s], x.now)
       THEN /\ locks' = [locks EXCEPT ![s] = h]
            /\ scan' = [scan EXCEPT ![h] =
                 [@ EXCEPT !.pc = pc, !.cand = Tail(@),
                           !.rows = Append(@, [name |-> s, user |-> owner[s],
                                               next_run |-> next_run[s]]),
                           !.claimed = Append(@, s)]]
       ELSE /\ locks' = locks
            /\ scan' = [scan EXCEPT ![h] =
                 [@ EXCEPT !.pc = pc, !.cand = Tail(@),
                           !.skipped = IF Unlocked(s) THEN @ ELSE Append(@, s)]]
    /\ UNCHANGED <<clock, tasks, lastid, exec, store, timers, launched, fired, manual>>

\* the rows a transaction wrote, as its commit makes them visible
RECURSIVE Inserted(_, _)
Inserted(tbl, ins) ==
    IF ins = <<>> THEN tbl
    ELSE Inserted(Insert(tbl, Head(ins).id, Head(ins).row), Tail(ins))

RECURSIVE Saved(_, _)
Saved(nr, upd) ==
    IF upd = <<>> THEN nr
    ELSE Saved([nr EXCEPT ![Head(upd).name] = Head(upd).next_run], Tail(upd))

\* mutant of RolledBack: the rows survive the exception
NotRolledBack(tbl, written) == written

\* line 191: transaction.atomic() rolls back when the block raises: the table
\* stays as committed (tbl), without what the transaction wrote to it (written)
RolledBack(tbl, written) == tbl

\* the locks of a transaction are released when it ends
Release(h) == [s \in Schedules |-> IF locks[s] = h THEN "" ELSE locks[s]]

\* lines 199-208: the body of the loop for the next locked row; when a save
\* raises, the transaction is rolled back and the exception leaves the command
HarvestStep(h, faults) ==
    LET x == scan[h]
        schedule == Head(x.rows) IN
    /\ x.pc = "loop"
    /\ x.rows # <<>>
    /\ \E raises \in faults :
         IF raises
         THEN /\ scan' = [scan EXCEPT ![h] =
                   [@ EXCEPT !.pc = "raised", !.e = "database error",
                             !.rows = <<>>, !.inserted = <<>>, !.saved = <<>>]]
              /\ tasks' = RolledBack(tasks, Inserted(tasks, x.inserted))
              /\ next_run' = RolledBack(next_run, Saved(next_run, x.saved))
              /\ locks' = Release(h)
              /\ lastid' = lastid
         ELSE /\ scan' = [scan EXCEPT ![h] =
                   [@ EXCEPT !.rows = Tail(@), !.created = TRUE,
                             !.made = @ \cup {lastid + 1},
                             !.inserted = Append(@,
                                [ id |-> lastid + 1,
                                  row |-> ScheduleTask(schedule.user, schedule.name),
                                  schedule |-> schedule.name,
                                  next_run |-> schedule.next_run ]),
                             !.saved = Append(@,
                                [ name |-> schedule.name,
                                  next_run |-> computeNextRun(rule[schedule.name],
                                                              x.now) ])]]
              /\ UNCHANGED <<tasks, next_run>>
              /\ locks' = locks
              /\ lastid' = lastid + 1
    /\ UNCHANGED <<clock, exec, data, owner, rule, timers, launched, fired, manual>>

\* line 191, at the end of the with block: the transaction commits
HarvestCommit(h) ==
    LET x == scan[h] IN
    /\ x.pc = "loop"
    /\ x.rows = <<>>
    /\ tasks' = Inserted(tasks, x.inserted)
    /\ next_run' = Saved(next_run, x.saved)
    /\ locks' = Release(h)
    /\ fired' = fired \cup
         { [ schedule |-> x.inserted[i].schedule,
             next_run |-> x.inserted[i].next_run,
             id |-> x.inserted[i].id ] : i \in 1..Len(x.inserted) }
    /\ scan' = [scan EXCEPT ![h] =
         [@ EXCEPT !.pc = "launch", !.inserted = <<>>, !.saved = <<>>]]
    /\ UNCHANGED <<clock, lastid, exec, data, owner, rule, timers, launched,
                   manual>>

\* mutant of LaunchCalls: one call for each task created
LaunchCallsPerTask(created, made) == Cardinality(made)

\* lines 211-212: the number of launchWorker calls of an invocation
LaunchCalls(created, made) == IF created THEN 1 ELSE 0

\* lines 210-212: the worker is launched when a task was created
HarvestLaunch(h) ==
    LET x == scan[h] IN
    /\ x.pc = "launch"
    /\ launched' = launched + LaunchCalls(x.created, x.made)
    /\ scan' = [scan EXCEPT ![h] =
         [@ EXCEPT !.pc = "rearm",
                   !.launches = @ + LaunchCalls(x.created, x.made)]]
    /\ UNCHANGED <<clock, tasks, lastid, exec, store, locks, timers, fired,
                   manual>>

\* the ways the call of the timer command can end
Outcomes == {"exit 0", "exit > 0", "exit < 0", "OSError"}

\* lines 214-263: the earliest next_run is read and the timer command called
\* with it. On posix a negative return code and an OSError raise
\* CommandError; on nt the return code is not looked at.
HarvestRearm(h, outcomes) ==
    LET x == scan[h] IN
    /\ x.pc = "rearm"
    /\ IF earliest_next = None
       THEN /\ scan' = [scan EXCEPT ![h] = [@ EXCEPT !.pc = "done"]]
            /\ timers' = timers
       ELSE \E outcome \in outcomes, os_name \in {"posix", "nt"} :
            LET call == TimerCall(earliest_next[1], x.database) IN
            /\ timers' = IF outcome = "exit 0" THEN Register(timers, call)
                         ELSE timers
            /\ scan' = [scan EXCEPT ![h] =
                 IF outcome = "OSError"
                 THEN [@ EXCEPT !.pc = "raised", !.calls = Append(@, call),
                                !.outcome = outcome,
                                !.e = IF os_name = "nt" THEN "OSError"
                                      ELSE "Can't schedule the task"]
                 ELSE IF outcome = "exit < 0" /\ os_name # "nt"
                 THEN [@ EXCEPT !.pc = "raised", !.calls = Append(@, call),
                                !.outcome = outcome,
                                !.e = "Non-zero exit code when scheduling the task"]
                 ELSE [@ EXCEPT !.pc = "done", !.calls = Append(@, call),
                                !.outcome = outcome]]
    /\ UNCHANGED <<clock, tasks, lastid, exec, store, locks, launched, fired, manual>>

-----------------------------------------------------------------------------
(* The specification of executeScheduledTask: one invocation, on a Task     *)
(* table that holds one row, for a schedule of up to MaxSteps steps.        *)

InitExec ==
    /\ clock = MaxTime - 1
    /\ \E t \in ExistingTasks : tasks = (1 :> t)
    /\ lastid = 1
    /\ next_run = [s \in Schedules |-> None]
    /\ \E d \in StepLists : data = [s \in Schedules |-> IF s = "S1" THEN d ELSE <<>>]
    /\ exec = [p \in Procs |-> IdleExec]
    /\ owner = [s \in Schedules |-> "None"]
    /\ rule = [s \in Schedules |-> 0]
    /\ scan = [h \in Scans |-> IdleScan]
    /\ locks = [s \in Schedules |-> ""]
    /\ timers = <<>>
    /\ launched = 0
    /\ fired = {}
    /\ manual = 0

NextExec ==
    \/ Tick
    \/ ExecStart("p1")
    \/ ExecGetTask("p1")
    \/ ExecSaveTask("p1")
    \/ ExecCreateStep("p1")
    \/ ExecUpdateProgress("p1")
    \/ ExecRunTask("p1")
    \/ ExecCheckStep("p1")
    \/ ExecAbortSave("p1")
    \/ ExecReread("p1")
    \/ ExecFinish("p1")
    \/ ExecExceptGet("p1")
    \/ ExecExceptSave("p1")

SpecExec == InitExec /\ [][NextExec]_vars

-----------------------------------------------------------------------------
(* The specifications of createScheduledTasks: the Task table is empty, any *)
(* schedule may be due, and the command is run by hand and by the timer.    *)
(* SpecScan has one invocation at a time, SpecHarvest has two that overlap. *)

InitHarvest ==
    /\ clock = 0
    /\ tasks = <<>>
    /\ lastid = 0
    /\ next_run \in [Schedules -> {None} \cup { At(t) : t \in 0..MaxDue }]
    /\ rule \in [Schedules -> Periods]
    /\ owner = [s \in Schedules |-> IF s = "S1" THEN "None" ELSE "admin"]
    /\ data = [s \in Schedules |-> <<>>]
    /\ exec = [p \in Procs |-> IdleExec]
    /\ scan = [h \in Scans |-> IdleScan]
    /\ locks = [s \in Schedules |-> ""]
    /\ timers = <<>>
    /\ launched = 0
    /\ fired = {}
    /\ manual = 0

\* the statements of an invocation; the timer command ends in one of outcomes
\* and a save raises only when faults allows it
Harvest(h, faults, outcomes) ==
    \/ HarvestSelect(h)
    \/ HarvestLock(h)
    \/ HarvestStep(h, faults)
    \/ HarvestCommit(h)
    \/ HarvestLaunch(h)
    \/ HarvestRearm(h, outcomes)

NextScan ==
    \/ ManualRun("h1", Later)
    \/ TimerFires("h1", Later)
    \/ Harvest("h1", BOOLEAN, Outcomes)

SpecScan == InitHarvest /\ [][NextScan]_vars

\* each of the two invocations runs once
NextHarvest ==
    \E h \in Scans :
        \/ scan[h].pc = "idle" /\ ManualRun(h, Later)
        \/ Harvest(h, BOOLEAN, {"exit 0"})

SpecHarvest == InitHarvest /\ [][NextHarvest]_vars

\* SpecLive: two invocations that overlap, started by hand and by the timer.
\* No save raises and every call of the timer command registers; S1 is due at
\* the start and recurs, S2 has a next_run.
InitLive ==
    /\ InitHarvest
    /\ next_run["S1"] = At(0)
    /\ next_run["S2"] # None
    /\ rule["S1"] # 0

NextLive ==
    \E h \in Scans :
        \/ scan[h].pc = "idle" /\ ManualRun(h, Later)
        \/ TimerFires(h, Later)
        \/ Harvest(h, {FALSE}, {"exit 0"})

\* every invocation that has started goes on to its end, and the timer goes on
\* running its registrations as time passes, up to the last time modelled
SpecLive ==
    /\ InitLive
    /\ [][NextLive]_vars
    /\ \A h \in Scans : WF_vars(Harvest(h, {FALSE}, {"exit 0"}))
    /\ SF_vars(\E h \in Scans : TimerFires(h, {MaxTime}))

-----------------------------------------------------------------------------
(* Claims about executeScheduledTask, checked under SpecExec                *)

\* the run of p1: its parent task as the table holds it, and its step tasks
Persisted(p) == exec[p].task # None /\ exec[p].task[1].id # None
Parent(p) == tasks[exec[p].task[1].id[1]]
ChildStatus(p, i) == tasks[exec[p].children[i]].status
FailedChildren(p) ==
    SelectSeq(exec[p].children, LAMBDA id : tasks[id].status = "Failed")
\* the run passed the test of the task and saved its parent
Running(p) == exec[p].idx >= 1
NoAbortFlag(p) == \A i \in 1..stepcount(p) : ~tasklist(p)[i].abort_on_failure

RECURSIVE CommaJoined(_)
CommaJoined(ids) ==
    IF ids = <<>> THEN ""
    ELSE IF Len(ids) = 1 THEN ToString(ids[1])
    ELSE ToString(ids[1]) \o ", " \o CommaJoined(Tail(ids))

\* C3: a run of N steps, none with abort-on-failure, in which every runTask
\* returned, creates N step tasks; the parent ends Done with an empty message
\* iff all step tasks ended Done, and else ends Failed with a message that
\* lists, comma-joined, the keys of the step tasks that ended Failed.
C3_FinalStatusListsFailedIds ==
    (Exited("p1") /\ Running("p1") /\ exec["p1"].fault = "" /\ NoAbortFlag("p1"))
    => /\ Len(exec["p1"].children) = stepcount("p1")
       /\ IF FailedChildren("p1") = <<>>
          THEN Parent("p1").status = "Done" /\ Parent("p1").message = ""
          ELSE /\ Parent("p1").status = "Failed"
               /\ Parent("p1").message =
                    "Failed at tasks: " \o CommaJoined(FailedChildren("p1"))

\* the first step that has abort-on-failure and whose task ended Failed (0: none)
FirstAbort(p) ==
    LET ks == { k \in 1..Len(exec[p].children) :
                  tasklist(p)[k].abort_on_failure /\ ChildStatus(p, k) = "Failed" }
    IN IF ks = {} THEN 0 ELSE CHOOSE k \in ks : \A j \in ks : k <= j

StepText(k, n) == "Failed at step " \o ToString(k) \o " of " \o ToString(n)

\* C4: when step k is the first step with abort-on-failure that ends Failed,
\* the run creates exactly k step tasks, the parent ends Failed, finished and
\* with the message "Failed at step k of N", and the run raises.
C4_AbortOnFailure ==
    (Exited("p1") /\ Running("p1") /\ exec["p1"].fault = ""
        /\ FirstAbort("p1") # 0)
    => /\ Len(exec["p1"].children) = FirstAbort("p1")
       /\ exec["p1"].handed = FirstAbort("p1")
       /\ Parent("p1").status = "Failed"
       /\ Parent("p1").finished # None
       /\ Parent("p1").message = StepText(FirstAbort("p1"), stepcount("p1"))
       /\ exec["p1"].pc = "raised"
       /\ exec["p1"].e = StepText(FirstAbort("p1"), stepcount("p1"))

C4_Witness ==
    /\ Exited("p1") /\ exec["p1"].fault = ""
    /\ stepcount("p1") = 2 /\ FirstAbort("p1") = 1
    /\ Parent("p1").message = "Failed at step 1 of 2"

\* the failures injected during a step, and the error each one raises
StepFaults == {"steptask.save", "update", "runTask", "steptask.get", "abort.save"}
FaultText(f) == IF f = "runTask" THEN "runTask error" ELSE "database error"

\* C5: when runTask or a database call raises during step i of a run whose
\* parent is in the table, no task is created for a later step, the parent ends
\* Failed with the error text as message, finished, without process id, and
\* the same error is raised; no run that is over leaves its parent at a
\* percentage.
C5_FailureFinalizesParent ==
    /\ (Exited("p1") /\ Persisted("p1") /\ exec["p1"].fault \in StepFaults)
       => /\ Len(exec["p1"].children) =
               IF exec["p1"].fault = "steptask.save"
               THEN exec["p1"].faultidx - 1 ELSE exec["p1"].faultidx
          /\ Parent("p1").status = "Failed"
          /\ Parent("p1").message = FaultText(exec["p1"].fault)
          /\ Parent("p1").finished # None
          /\ Parent("p1").processid = None
          /\ exec["p1"].pc = "raised"
          /\ exec["p1"].e = FaultText(exec["p1"].fault)
    /\ (Exited("p1") /\ Persisted("p1"))
       => Parent("p1").status \in {"Done", "Failed"}

C5_Witness ==
    /\ Exited("p1") /\ Persisted("p1")
    /\ exec["p1"].fault = "runTask" /\ exec["p1"].faultidx = 1
    /\ stepcount("p1") = 2
    /\ Parent("p1").message = "runTask error"

\* the task given with --task, as it was when the invocation started
Given(p) == exec[p].pre[exec[p].opt_task]
GivenIsInvalid(p) ==
    /\ exec[p].opt_task \in DOMAIN exec[p].pre
    /\ \/ Given(p).started # None
       \/ Given(p).finished # None
       \/ Given(p).status # "Waiting"
       \/ Given(p).name \notin {"runplan", "frepple_run"}

\* C6: an invocation given a task that is started, finished, not Waiting or
\* not a run task raises the invalid-task error, and it has created no step
\* task and called runTask for none.
C6_InvalidTaskRejected ==
    (exec["p1"].pc \notin {"idle", "gettask"} /\ exec["p1"].fault = ""
        /\ GivenIsInvalid("p1"))
    => /\ exec["p1"].e = "Invalid task identifier"
       /\ exec["p1"].pc \in {"except", "exceptsave", "raised"}
       /\ exec["p1"].children = <<>>
       /\ exec["p1"].handed = 0
       /\ DOMAIN tasks = DOMAIN exec["p1"].pre

C6_Witness ==
    /\ exec["p1"].pc = "raised" /\ GivenIsInvalid("p1")
    /\ Given("p1").status = "Waiting" /\ Given("p1").name = "schedule"
    /\ exec["p1"].e = "Invalid task identifier"

\* C7: an invocation that rejects the given task as invalid leaves the Task
\* table as it was: the given task keeps its status, message, started, finished
\* and process id, and no task is created.
C7_RejectionLeavesLedger ==
    (Exited("p1") /\ exec["p1"].fault = "" /\ GivenIsInvalid("p1"))
    => tasks = exec["p1"].pre

-----------------------------------------------------------------------------
(* Claims about createScheduledTasks                                        *)

\* the tasks of the table that a scan created
ScheduleTasks == { id \in DOMAIN tasks : tasks[id].name = "schedule" }
\* the scan of h has committed
Committed(h) == scan[h].pc \in {"launch", "rearm", "done"}
Over(h) == Committed(h) \/ scan[h].pc = "raised"

\* C1 (under SpecHarvest, two scans that overlap in every way): no schedule is
\* claimed twice for one value of its next_run, every task named "schedule"
\* is the task of exactly one committed claim and carries the name of its
\* schedule, and when both scans are over the table holds one task for each
\* row a committed scan locked.
C1_NoDoubleClaim ==
    /\ \A x, y \in fired :
         (x.schedule = y.schedule /\ x.next_run = y.next_run) => x = y
    /\ \A x, y \in fired : x.id = y.id => x = y
    /\ ScheduleTasks = { x.id : x \in fired }
    /\ \A x \in fired : tasks[x.id].arguments = x.schedule
    /\ (Over("h1") /\ Over("h2"))
       => Cardinality(ScheduleTasks) =
            (IF Committed("h1") THEN Len(scan["h1"].claimed) ELSE 0)
            + (IF Committed("h2") THEN Len(scan["h2"].claimed) ELSE 0)

\* both scans were taken at the same time with both schedules due; h2 found
\* S1 locked by h1, skipped it and claimed S2
C1_Witness ==
    /\ scan["h1"].pc = "done" /\ scan["h2"].pc = "done"
    /\ scan["h1"].now = scan["h2"].now
    /\ scan["h1"].claimed = <<"S1">>
    /\ scan["h2"].skipped = <<"S1">> /\ scan["h2"].claimed = <<"S2">>
    /\ Cardinality(ScheduleTasks) = 2

\* the schedules that are due at the time now of the scan of h
Due(h) == { s \in Schedules :
              next_run[s] # None /\ next_run[s][1] <= scan[h].now }

\* C2 (under SpecScan, one scan at a time): the commit of a scan taken at now
\* adds, for every schedule with a next_run <= now, exactly one task, named
\* "schedule", Waiting, with the schedule's name as arguments and its user,
\* adds no other task, and sets the schedule's next_run to the recurrence
\* computed from now, which differs from the old value.
C2_ScanClaimsEveryDue ==
    [][ (scan["h1"].pc = "loop" /\ scan'["h1"].pc = "launch")
        => LET new == DOMAIN tasks' \ DOMAIN tasks IN
           /\ \A s \in Due("h1") :
                /\ Cardinality({ id \in new : tasks'[id].arguments = s }) = 1
                /\ next_run'[s] = computeNextRun(rule[s], scan["h1"].now)
                /\ next_run'[s] # next_run[s]
           /\ \A id \in new :
                /\ tasks'[id].arguments \in Due("h1")
                /\ tasks'[id].name = "schedule"
                /\ tasks'[id].status = "Waiting"
                /\ tasks'[id].user = owner[tasks'[id].arguments]
           /\ \A s \in Schedules \ Due("h1") : next_run'[s] = next_run[s] ]_vars

\* a scan has committed the claims of two schedules, one of them due exactly
\* at now
C2_Witness ==
    /\ scan["h1"].pc = "launch"
    /\ Len(scan["h1"].claimed) = 2
    /\ \E x \in fired : x.id \in scan["h1"].made /\ x.next_run = At(scan["h1"].now)

\* the earliest next_run of the table
MinNextDue ==
    CHOOSE t \in { next_run[s][1] : s \in { r \in Schedules : next_run[r] # None } } :
        \A s \in Schedules : next_run[s] # None => t <= next_run[s][1]

\* C8 (under SpecScan): an invocation that returns has called the timer
\* command not at all when no schedule has a next_run, and else exactly once,
\* for the time that is the earliest next_run and for its own database.
C8_RearmAtEarliest ==
    scan["h1"].pc = "done"
    => IF \A s \in Schedules : next_run[s] = None
       THEN scan["h1"].calls = <<>>
       ELSE /\ Len(scan["h1"].calls) = 1
            /\ FireTime(scan["h1"].calls[1]) = MinNextDue
            /\ scan["h1"].calls[1].database = scan["h1"].database

\* C10 (under SpecScan): when a save raises in the loop of a scan, the step
\* leaves the Task table and every next_run as they were before the scan, the
\* locks are released, and the invocation ends with the error, without any of
\* the tasks it inserted, without launching the worker and without calling
\* the timer command.
C10_FailedScanRollsBack ==
    /\ [][ (scan["h1"].pc = "loop" /\ scan'["h1"].pc = "raised")
           => /\ tasks' = tasks
              /\ next_run' = next_run
              /\ launched' = launched
              /\ \A s \in Schedules : locks'[s] = "" ]_vars
    /\ [](scan["h1"].pc = "raised" /\ scan["h1"].e = "database error"
          => /\ scan["h1"].made \cap DOMAIN tasks = {}
             /\ scan["h1"].launches = 0
             /\ scan["h1"].calls = <<>>)

\* a save raised for the second row, after a task was inserted for the first
C10_Witness ==
    /\ scan["h1"].pc = "raised" /\ scan["h1"].e = "database error"
    /\ Len(scan["h1"].claimed) = 2
    /\ scan["h1"].made # {}

\* a task was created for the occurrence of schedule s that was due at d
Fired(s, d) == \E x \in fired : x.schedule = s /\ x.next_run = At(d)

Launching(h) ==
    \/ scan[h].pc \in {"rearm", "done"}
    \/ scan[h].pc = "raised" /\ scan[h].outcome # ""

\* C11 (under SpecScan): launchWorker is called only by an invocation whose
\* transaction has committed and that created a task, when the tasks it
\* created are in the table and Waiting; an invocation calls it once when it
\* created one task or more, and not at all when it created none or raised in
\* its transaction.
C11_LaunchOnceAfterCommit ==
    /\ [][ launched' # launched
           => /\ launched' = launched + 1
              /\ scan["h1"].pc = "launch"
              /\ scan["h1"].made # {}
              /\ \A id \in scan["h1"].made :
                   /\ id \in DOMAIN tasks
                   /\ tasks[id].name = "schedule"
                   /\ tasks[id].status = "Waiting" ]_vars
    /\ [](scan["h1"].launches =
            IF Launching("h1") /\ scan["h1"].made # {} THEN 1 ELSE 0)

\* an invocation that created two tasks has launched the worker once
C11_Witness ==
    /\ scan["h1"].pc = "rearm"
    /\ Cardinality(scan["h1"].made) = 2
    /\ scan["h1"].launches = 1
    /\ launched >= 1

\* the elements of a sequence
Range(q) == { q[i] : i \in 1..Len(q) }

\* C12 (under SpecHarvest): a next_run changes, and a task naming a schedule
\* appears, only in the commit of a scan that locked the row of that schedule,
\* and the row was due at the now of that scan: a schedule with a null or
\* later next_run, and a schedule the scan skipped as locked, is left alone.
C12_OnlyLockedRowsMutated ==
    /\ [][ \A s \in Schedules :
             ( \/ next_run'[s] # next_run[s]
               \/ \E id \in DOMAIN tasks' \ DOMAIN tasks : tasks'[id].arguments = s )
             => \E h \in Scans :
                  /\ scan[h].pc = "loop" /\ scan'[h].pc = "launch"
                  /\ s \in Range(scan[h].claimed)
                  /\ s \notin Range(scan[h].skipped)
                  /\ next_run[s] # None
                  /\ next_run[s][1] <= scan[h].now ]_vars
    /\ [](\A h \in Scans : \A id \in scan[h].made :
            id \in DOMAIN tasks
            => tasks[id].arguments \in Range(scan[h].claimed))

\* h2 skipped S1, which h1 had locked and has committed, and left S2 alone,
\* which is due later
C12_Witness ==
    /\ scan["h2"].pc = "launch"
    /\ scan["h2"].skipped = <<"S1">> /\ scan["h2"].made = {}
    /\ next_run["S2"] # None /\ next_run["S2"][1] > scan["h2"].now
    /\ \E x \in fired : x.schedule = "S1" /\ x.id \in scan["h1"].made

\* C13 (under SpecScan): when the timer command cannot be started or exits
\* with a code that is not zero, the invocation ends with an error, and the
\* tasks its harvest created stay in the table.
C13_TimerFailureIsFatal ==
    scan["h1"].outcome \in {"exit > 0", "exit < 0", "OSError"}
    => /\ scan["h1"].pc = "raised"
       /\ scan["h1"].made \subseteq DOMAIN tasks

\* C14 (under SpecScan): an invocation that found nothing due and registered
\* the timer leaves one pending registration, its own.
C14_RearmReplaces ==
    (scan["h1"].pc = "done" /\ scan["h1"].claimed = <<>>
        /\ scan["h1"].outcome = "exit 0")
    => timers = <<scan["h1"].calls[1]>>

-----------------------------------------------------------------------------
(* Further claims about executeScheduledTask, checked under SpecExec        *)

\* the error that made the run of p fail
OriginalError(p) ==
    IF exec[p].fault = ""
    THEN StepText(FirstAbort(p), stepcount(p))
    ELSE FaultText(exec[p].fault)

\* C15: when the first save of the parent raised (a new parent is then not in
\* the table), or when the parent was already saved as Failed by an aborted
\* step, the handler raises no error of its own: the run raises the original
\* error.
C15_FinalizationKeepsError ==
    ( /\ exec["p1"].pc = "raised"
      /\ \/ exec["p1"].fault = "save"
         \/ exec["p1"].fault = "" /\ Running("p1") /\ FirstAbort("p1") # 0 )
    => exec["p1"].e = OriginalError("p1")

\* C16: a run of a schedule without steps, in which no call raises, creates no
\* step task and calls runTask for none; its parent is at "0%" until the run
\* ends, and then Done, with an empty message, finished and without process
\* id, and the run returns.
C16_EmptyScheduleDone ==
    (Running("p1") /\ stepcount("p1") = 0 /\ exec["p1"].fault = "")
    => /\ exec["p1"].children = <<>>
       /\ exec["p1"].handed = 0
       /\ DOMAIN tasks \ DOMAIN exec["p1"].pre \subseteq {exec["p1"].task[1].id[1]}
       /\ exec["p1"].pc \in {"loop", "finish", "done"}
       /\ IF exec["p1"].pc = "done"
          THEN /\ Parent("p1").status = "Done"
               /\ Parent("p1").message = ""
               /\ Parent("p1").finished # None
               /\ Parent("p1").processid = None
          ELSE /\ Parent("p1").status = "0%"
               /\ Parent("p1").finished = None

\* a task given with --task went from Waiting to Done for a schedule without
\* steps
C16_Witness ==
    /\ exec["p1"].pc = "done" /\ stepcount("p1") = 0
    /\ exec["p1"].opt_task = 1
    /\ Given("p1").status = "Waiting"
    /\ tasks[1].status = "Done" /\ tasks[1].started # None

\* floor(i * 100 / n)
Floor100(i, n) == CHOOSE q \in 0..100 : q * n <= i * 100 /\ i * 100 < (q + 1) * n
\* the statuses that are percentages, and their values
Percentages == { ToString(v) \o "%" : v \in 0..100 }
PercentValue(st) == CHOOSE v \in 0..100 : ToString(v) \o "%" = st

\* C17: while step i of N runs, the parent in the table has the status
\* floor(i * 100 / N) followed by "%" and the message "Running task <id> as
\* step i of N" with the key of the task of step i; it is at 100% while the
\* last step runs; its percentage never decreases during the run; and it is
\* started, with the status "0%", when the first step task is created.
C17_ProgressWhileStepRuns ==
    /\ [](exec["p1"].pc = "run"
          => /\ exec["p1"].idx \in 1..stepcount("p1")
             /\ Parent("p1").status =
                  ToString(Floor100(exec["p1"].idx, stepcount("p1"))) \o "%"
             /\ Parent("p1").message =
                  "Running task " \o ToString(exec["p1"].children[exec["p1"].idx])
                     \o " as step " \o ToString(exec["p1"].idx)
                     \o " of " \o ToString(stepcount("p1"))
             /\ (exec["p1"].idx = stepcount("p1") => Parent("p1").status = "100%"))
    /\ [][ (exec["p1"].children = <<>> /\ exec'["p1"].children # <<>>)
           => /\ Parent("p1").status = "0%"
              /\ Parent("p1").started = At(exec["p1"].now) ]_vars
    /\ [][ ( /\ Running("p1")
             /\ Parent("p1").status \in Percentages
             /\ tasks'[exec["p1"].task[1].id[1]].status \in Percentages )
           => PercentValue(tasks'[exec["p1"].task[1].id[1]].status)
                >= PercentValue(Parent("p1").status) ]_vars

\* the first of two steps runs, with the parent at 50%
C17_Witness ==
    /\ exec["p1"].pc = "run" /\ exec["p1"].idx = 1 /\ stepcount("p1") = 2
    /\ exec["p1"].opt_task = 1
    /\ tasks[1].status = "50%"
    /\ tasks[1].message = "Running task 2 as step 1 of 2"

Terminal == {"Done", "Failed", "Canceled"}

\* C18: the step tasks of a run are created in the order of the step list, and
\* the task of a step is created only after runTask has returned for the
\* step before it: every step task but the last is in a terminal status, so
\* the run never has two step tasks that are not.
C18_OneStepAtATime ==
    LET x == exec["p1"]
        n == Len(x.children) IN
    /\ x.pc = "idle" \/ n <= stepcount("p1")
    /\ \A i \in 1..(n - 1) :
         /\ ChildStatus("p1", i) \in Terminal
         /\ x.children[i] < x.children[i + 1]
    /\ Cardinality({ i \in 1..n : ChildStatus("p1", i) \notin Terminal }) <= 1
    /\ x.handed \in {n - 1, n} \/ n = 0
    /\ (x.pc \in {"update", "run"}) => x.handed = n - 1

\* the second step's task waits for runTask after the first step's task failed
C18_Witness ==
    /\ exec["p1"].pc = "run" /\ Len(exec["p1"].children) = 2
    /\ ChildStatus("p1", 1) = "Failed"
    /\ ChildStatus("p1", 2) = "Waiting"

-----------------------------------------------------------------------------
(* SpecFiring: the command in its two modes, one after the other: an        *)
(* invocation creates the tasks of the schedules that are due, and then an  *)
(* invocation of executeScheduledTask is given a schedule and a task.       *)

InitFiring ==
    /\ clock = 0
    /\ tasks = <<>>
    /\ lastid = 0
    /\ next_run \in [Schedules -> {None} \cup { At(t) : t \in 0..MaxDue }]
    /\ rule \in [Schedules -> Periods]
    /\ owner = [s \in Schedules |-> IF s = "S1" THEN "None" ELSE "admin"]
    /\ \E d \in StepLists : data = [s \in Schedules |-> IF s = "S1" THEN d ELSE <<>>]
    /\ exec = [p \in Procs |-> IdleExec]
    /\ scan = [h \in Scans |-> IdleScan]
    /\ locks = [s \in Schedules |-> ""]
    /\ timers = <<>>
    /\ launched = 0
    /\ fired = {}
    /\ manual = 0

NextFiring ==
    \/ exec["p1"].pc = "idle" /\ ManualRun("h1", Later)
    \/ exec["p1"].pc = "idle" /\ Harvest("h1", {FALSE}, {"exit 0"})
    \/ scan["h1"].pc = "done" /\ ExecStart("p1")
    \/ ExecGetTask("p1")
    \/ ExecSaveTask("p1")
    \/ ExecCreateStep("p1")
    \/ ExecUpdateProgress("p1")
    \/ ExecRunTask("p1")
    \/ ExecCheckStep("p1")
    \/ ExecAbortSave("p1")
    \/ ExecReread("p1")
    \/ ExecFinish("p1")
    \/ ExecExceptGet("p1")
    \/ ExecExceptSave("p1")

SpecFiring == InitFiring /\ [][NextFiring]_vars

\* the invocation of p was given the task that a scan created for its schedule
GivenFiring(p) ==
    \E x \in fired :
        /\ x.id = exec[p].opt_task
        /\ x.schedule = exec[p].schedule
        /\ x.id \in DOMAIN exec[p].pre
        /\ exec[p].pre[x.id].status = "Waiting"
        /\ exec[p].pre[x.id].started = None
        /\ exec[p].pre[x.id].finished = None
        /\ exec[p].pre[x.id].arguments = exec[p].schedule

\* C19 (under SpecFiring): an invocation for schedule S that is given the
\* task a scan created for S, and in which no call raises, does not reject
\* the task: once the task is saved it is started, and no step task is created
\* before that.
C19_HarvestedTaskIsValidParent ==
    (exec["p1"].pc \notin {"idle", "gettask"} /\ exec["p1"].fault = ""
        /\ GivenFiring("p1"))
    => /\ exec["p1"].e # "Invalid task identifier"
       /\ Running("p1") => tasks[exec["p1"].opt_task].started = At(exec["p1"].now)

-----------------------------------------------------------------------------
(* SpecRace: two invocations of executeScheduledTask that overlap, on a     *)
(* Task table that holds one Waiting task.                                  *)

InitRace ==
    /\ clock = MaxTime - 1
    /\ tasks = (1 :> Task("runplan", None, "Waiting", "None", None, ""))
    /\ lastid = 1
    /\ next_run = [s \in Schedules |-> None]
    /\ \E d \in StepLists : data = [s \in Schedules |-> IF s = "S1" THEN d ELSE <<>>]
    /\ exec = [p \in Procs |-> IdleExec]
    /\ owner = [s \in Schedules |-> "None"]
    /\ rule = [s \in Schedules |-> 0]
    /\ scan = [h \in Scans |-> IdleScan]
    /\ locks = [s \in Schedules |-> ""]
    /\ timers = <<>>
    /\ launched = 0
    /\ fired = {}
    /\ manual = 0

\* both invocations are for schedule S1 and are given task 1
NextRace ==
    \E p \in Procs :
        \/ /\ ExecStart(p)
           /\ exec'[p].schedule = "S1"
           /\ exec'[p].opt_task = 1
           /\ exec'[p].user = "None"
        \/ ExecGetTask(p)
        \/ ExecSaveTask(p)
        \/ ExecCreateStep(p)
        \/ ExecUpdateProgress(p)
        \/ ExecRunTask(p)
        \/ ExecCheckStep(p)
        \/ ExecAbortSave(p)
        \/ ExecReread(p)
        \/ ExecFinish(p)
        \/ ExecExceptGet(p)
        \/ ExecExceptSave(p)

SpecRace == InitRace /\ [][NextRace]_vars

\* the invocation of p was given a task, found it valid and saved it as started
Claimed(p) ==
    /\ exec[p].opt_task # 0
    /\ Running(p)
    /\ exec[p].e \notin {"Invalid task identifier", "Task identifier not found"}

\* C20 (under SpecRace): of two invocations given the same task, at most one
\* finds it valid and saves it as started.
C20_AtMostOneExecutorClaims ==
    \A p, q \in Procs :
        (Claimed(p) /\ Claimed(q) /\ exec[p].opt_task = exec[q].opt_task)
        => p = q

====
